---- MODULE Spec2Model ----
(***************************************************************************)
(* A model of src/src/config.ts: the client of the notebook server's       *)
(* config service.  ConfigSection mirrors one named JSON object of the     *)
(* server (load by GET, update by optimistic merge + PATCH);               *)
(* ConfigWithDefaults is a defaulted, optionally class-scoped view on it.  *)
(*                                                                         *)
(* The transport (utils.ajaxRequest) is the environment: it answers each   *)
(* request, in any order, with a status and a parsed JSON body, or fails.  *)
(***************************************************************************)
EXTENDS Integers, Sequences, FiniteSets, TLC

VARIABLES
  _data,          \* ConfigSection._data
  _ajaxSettings,  \* ConfigSection._ajaxSettings: a reference into heap
  heap,           \* the settings objects, by location
  callerRead,     \* the reference the caller last read from section.ajaxSettings
  loadReq,        \* the GET issued by load() and its answer
  loadP,          \* the promise load() returns
  sectionP,       \* the promise getConfigSection() returns
  updates,        \* the update() calls, in call order: request, answer, promise
  sent,           \* the number of requests handed to utils.ajaxRequest
  lastOk,         \* history: the body of the most recent status-200 response
  since,          \* history: the arguments of the update() calls made since
  ev              \* history: the operation that produced this state

vars == <<_data, _ajaxSettings, heap, callerRead, loadReq, loadP, sectionP,
          updates, sent, lastOk, since, ev>>

-----------------------------------------------------------------------------
\* the bound of the model: update() calls (direct or through set()) in one run
MaxUpdates == 2

\* the status the then-callbacks of load() and update() accept
OK == 200

-----------------------------------------------------------------------------
(* JSON values (json.ts: JSONValue), all of one shape so that any two       *)
(* compare: k is the JavaScript type, p the primitive, o the members.       *)

Str(s) == [k |-> "string", p |-> s, o |-> <<>>]
Num(s) == [k |-> "number", p |-> s, o |-> <<>>]
Bool(s) == [k |-> "boolean", p |-> s, o |-> <<>>]
Null == [k |-> "null", p |-> "", o |-> <<>>]
Undefined == [k |-> "undefined", p |-> "", o |-> <<>>]
Obj(f) == [k |-> "object", p |-> "", o |-> f]

\* a TypeError thrown by a property access on null or undefined
TypeError == [k |-> "TypeError", p |-> "", o |-> <<>>]

\* JavaScript truthiness, as `||` tests it
Truthy(v) ==
  CASE v.k = "string" -> v.p # ""
    [] v.k = "number" -> v.p # "0"
    [] v.k = "boolean" -> v.p = "true"
    [] v.k = "object" -> TRUE
    [] OTHER -> FALSE

\* v[key]: throws on null and undefined, undefined for a missing member
Index(v, key) ==
  IF v.k \in {"null", "undefined", "TypeError"} THEN TypeError
  ELSE IF v.k = "object" /\ key \in DOMAIN v.o THEN v.o[key]
  ELSE Undefined

\* the member names the model uses, in the order they are serialised
KeyOrder == <<"foo", "spam", "testclass">>

RECURSIVE JSONstringify(_)
RECURSIVE StringifyMembers(_, _, _)
StringifyMembers(o, i, first) ==
  IF i > Len(KeyOrder) THEN ""
  ELSE IF KeyOrder[i] \in DOMAIN o
       THEN (IF first THEN "" ELSE ",") \o "\"" \o KeyOrder[i] \o "\":"
            \o JSONstringify(o[KeyOrder[i]]) \o StringifyMembers(o, i + 1, FALSE)
       ELSE StringifyMembers(o, i + 1, first)

\* JSON.stringify on a JSON value
JSONstringify(v) ==
  CASE v.k = "string" -> "\"" \o v.p \o "\""
    [] v.k = "object" -> "{" \o StringifyMembers(v.o, 1, TRUE) \o "}"
    [] v.k = "null" -> "null"
    [] OTHER -> v.p

\* utils.extend(target, source), of the jupyter-js-utils package: the shallow
\* merge of source onto target.  A member of source replaces the member of
\* target of that name, whole; the other members of target stay.
utils_extend(target, source) ==
  Obj([key \in DOMAIN target.o \cup DOMAIN source.o |->
         IF key \in DOMAIN source.o THEN source.o[key] ELSE target.o[key]])

-----------------------------------------------------------------------------
(* Transport settings (IAjaxSettings).  A member that is absent reads      *)
(* "undefined".  The objects live in a heap so that a reference and a copy *)
(* differ: "options" is the object the caller built and holds, "literal"   *)
(* the {} of the constructor, "stored" the section's own, "read" the one   *)
(* handed to the caller by the getter, "request" the one load() and        *)
(* update() fill in and send.                                              *)

Locs == {"options", "literal", "stored", "read", "request"}

NoSettings ==
  [method |-> "undefined", data |-> "undefined", dataType |-> "undefined",
   contentType |-> "undefined", cache |-> "undefined", timeout |-> "undefined"]

\* utils.copy(object), of the jupyter-js-utils package: a new object, at dst,
\* holding the members of the object at src
utils_copy(h, src, dst) ==
  [ref |-> dst,
   heap |-> [h EXCEPT ![dst] = [f \in DOMAIN h[src] |-> h[src][f]]]]

\* get ajaxSettings()
get_ajaxSettings_alias(h, stored, dst) == [ref |-> stored, heap |-> h]
get_ajaxSettings(h, stored, dst) == utils_copy(h, stored, dst)

\* set ajaxSettings(value)
set_ajaxSettings(h, value, dst) == utils_copy(h, value, dst)

-----------------------------------------------------------------------------
(* What the environment supplies: the caller's arguments and the server's  *)
(* answers.                                                                *)

\* the statuses the transport resolves the GET and the PATCH with
LoadStatuses == {200, 201, 204, 404}
UpdateStatuses == {200, 201}

\* the parsed response bodies: JSON objects, as the service's contract has it
Bodies ==
  { Obj(<<>>),
    Obj(("foo" :> Str("baz")) @@ ("spam" :> Str("eggs"))),
    Obj("testclass" :> Obj(("foo" :> Str("baz")) @@ ("spam" :> Str("eggs")))) }

\* the arguments of direct update() calls
Partials ==
  { Obj("foo" :> Str("baz")),
    Obj(("foo" :> Str("baz")) @@ ("spam" :> Str("eggs"))) }

\* the keys and values given to set()
SetKeys == {"foo", "spam"}
SetValues == {Str("bar")}

\* the options a ConfigWithDefaults is built from by the callers of set()
SetOptions ==
  { [className |-> c, defaults |-> Undefined] : c \in {Undefined, Str("testclass")} }

\* options.ajaxSettings given to getConfigSection: absent, or an object
InitAjaxSettings == {"absent", "given"}
GivenSettings == [NoSettings EXCEPT !.timeout = "10"]

\* the error a failing transport rejects with; config.ts passes it on unchanged
TransportError == "NetworkError"

-----------------------------------------------------------------------------
(* ConfigSection *)

NoEv ==
  [op |-> "new", id |-> 0, status |-> 0, body |-> Undefined, before |-> Undefined,
   cls |-> "", key |-> "", val |-> Undefined, dflt |-> Undefined, loc |-> ""]

\* the state after `new ConfigSection(options)` (getConfigSection, line 87):
\* the constructor assigns options.ajaxSettings || {} through the setter
Init ==
  \E given \in InitAjaxSettings :
    LET h0 == [l \in Locs |-> IF l = "options" /\ given = "given"
                              THEN GivenSettings ELSE NoSettings]
        s == set_ajaxSettings(h0, IF given = "given" THEN "options" ELSE "literal",
                              "stored")
    IN /\ heap = s.heap
       /\ _ajaxSettings = s.ref
       /\ _data = Null
       /\ callerRead = "none"
       /\ loadReq = [state |-> "none", settings |-> NoSettings, status |-> 0,
                     body |-> Undefined]
       /\ loadP = [state |-> "none", error |-> ""]
       /\ sectionP = [state |-> "none", error |-> ""]
       /\ updates = <<>>
       /\ sent = 0
       /\ lastOk = Undefined
       /\ since = <<>>
       /\ ev = NoEv

\* Error('Invalid Status: ' + success.xhr.status)
InvalidStatus_no_code(status) == "Invalid Status"
InvalidStatus(status) == "Invalid Status: " \o ToString(status)

\* the then-callback of load(): throws, or stores the body
load_then_any_status(cur, success) ==
  [threw |-> FALSE, error |-> "", data |-> success.data]
load_then_no_store(cur, success) ==
  IF success.status # OK
  THEN [threw |-> TRUE, error |-> InvalidStatus(success.status), data |-> cur]
  ELSE [threw |-> FALSE, error |-> "", data |-> cur]
load_then(cur, success) ==
  IF success.status # OK
  THEN [threw |-> TRUE, error |-> InvalidStatus(success.status), data |-> cur]
  ELSE [threw |-> FALSE, error |-> "", data |-> success.data]

\* the then-callback of update(): throws, or stores the body and returns it
update_then_merge(cur, success) ==
  IF success.status # OK
  THEN [threw |-> TRUE, error |-> InvalidStatus(success.status), data |-> cur,
        value |-> Undefined]
  ELSE [threw |-> FALSE, error |-> "", data |-> utils_extend(cur, success.data),
        value |-> utils_extend(cur, success.data)]
update_then_store_failed(cur, success) ==
  IF success.status # OK
  THEN [threw |-> TRUE, error |-> InvalidStatus(success.status),
        data |-> success.data, value |-> Undefined]
  ELSE [threw |-> FALSE, error |-> "", data |-> success.data,
        value |-> success.data]
update_then_keep_local(cur, success) ==
  IF success.status # OK
  THEN [threw |-> TRUE, error |-> InvalidStatus(success.status), data |-> cur,
        value |-> Undefined]
  ELSE [threw |-> FALSE, error |-> "", data |-> cur, value |-> success.data]
update_then(cur, success) ==
  IF success.status # OK
  THEN [threw |-> TRUE, error |-> InvalidStatus(success.status), data |-> cur,
        value |-> Undefined]
  ELSE [threw |-> FALSE, error |-> "", data |-> success.data,
        value |-> success.data]

\* load(): a GET with the section's settings, on a copy of them
Load ==
  /\ loadP.state = "none"
  /\ LET g == get_ajaxSettings(heap, _ajaxSettings, "request")
         s == [g.heap[g.ref] EXCEPT !.method = "GET", !.dataType = "json",
                                    !.cache = "false"]
     IN /\ heap' = [g.heap EXCEPT ![g.ref] = s]
        /\ loadReq' = [state |-> "pending", settings |-> s, status |-> 0,
                       body |-> Undefined]
  /\ loadP' = [state |-> "pending", error |-> ""]
  /\ sectionP' = [state |-> "pending", error |-> ""]
  /\ sent' = sent + 1
  /\ ev' = [NoEv EXCEPT !.op = "load", !.before = _data]
  /\ UNCHANGED <<_data, _ajaxSettings, callerRead, updates, lastOk, since>>

\* the transport answers the GET: load()'s then-callback runs
LoadRespond(status, body) ==
  /\ loadReq.state = "pending"
  /\ LET r == load_then(_data, [status |-> status, data |-> body])
     IN /\ _data' = r.data
        /\ loadP' = IF r.threw THEN [state |-> "rejected", error |-> r.error]
                    ELSE [state |-> "resolved", error |-> ""]
  /\ loadReq' = [loadReq EXCEPT !.state = "answered", !.status = status,
                                !.body = body]
  /\ lastOk' = IF status = 200 THEN body ELSE lastOk
  /\ since' = IF status = 200 THEN <<>> ELSE since
  /\ ev' = [NoEv EXCEPT !.op = "loadResponse", !.status = status, !.body = body,
                        !.before = _data]
  /\ UNCHANGED <<_ajaxSettings, heap, callerRead, sectionP, updates, sent>>

\* the transport fails the GET: its error rejects load()'s promise
LoadFail ==
  /\ loadReq.state = "pending"
  /\ loadReq' = [loadReq EXCEPT !.state = "failed"]
  /\ loadP' = [state |-> "rejected", error |-> TransportError]
  /\ ev' = [NoEv EXCEPT !.op = "loadError", !.before = _data]
  /\ UNCHANGED <<_data, _ajaxSettings, heap, callerRead, sectionP, updates,
                 lastOk, since, sent>>

\* getConfigSection's `.then(() => section)`: its promise follows load()'s
GetConfigSectionSettle ==
  /\ sectionP.state = "pending"
  /\ loadP.state \in {"resolved", "rejected"}
  /\ sectionP' = loadP
  /\ ev' = [NoEv EXCEPT !.op = "settle", !.before = _data]
  /\ UNCHANGED <<_data, _ajaxSettings, heap, callerRead, loadReq, loadP,
                 updates, lastOk, since, sent>>

\* this._data = utils.extend(this._data, newdata)
update_data_after_response(cur, newdata) == cur
update_data_deep(cur, newdata) ==
  Obj([key \in DOMAIN cur.o \cup DOMAIN newdata.o |->
         IF key \notin DOMAIN newdata.o THEN cur.o[key]
         ELSE IF key \in DOMAIN cur.o /\ cur.o[key].k = "object"
                 /\ newdata.o[key].k = "object"
              THEN utils_extend(cur.o[key], newdata.o[key])
              ELSE newdata.o[key]])
update_data(cur, newdata) == utils_extend(cur, newdata)

\* ajaxSettings.data = JSON.stringify(newdata)
update_body_merged(cur, newdata) == JSONstringify(utils_extend(cur, newdata))
update_body(cur, newdata) == JSONstringify(newdata)

\* update(newdata), up to the return of its promise
update(newdata) ==
  LET g == get_ajaxSettings(heap, _ajaxSettings, "request")
      s == [g.heap[g.ref] EXCEPT !.method = "PATCH",
                                 !.data = update_body(_data, newdata),
                                 !.dataType = "json",
                                 !.contentType = "application/json"]
  IN /\ _data' = update_data(_data, newdata)
     /\ heap' = [g.heap EXCEPT ![g.ref] = s]
     /\ updates' = Append(updates,
                     [partial |-> newdata, settings |-> s, state |-> "pending",
                      status |-> 0, value |-> Undefined, error |-> "",
                      before |-> _data])
     /\ since' = Append(since, newdata)
     /\ sent' = sent + 1
     /\ UNCHANGED <<_ajaxSettings, callerRead, loadReq, loadP, sectionP, lastOk>>

\* a caller that holds the section calls update(newdata)
Update(newdata) ==
  /\ sectionP.state = "resolved"
  /\ Len(updates) < MaxUpdates
  /\ update(newdata)
  /\ ev' = [NoEv EXCEPT !.op = "update", !.id = Len(updates) + 1,
                        !.body = newdata, !.before = _data]

\* the transport answers the PATCH of the i-th update: its then-callback runs
UpdateRespond_retry(i, status, body) ==
  /\ i \in DOMAIN updates
  /\ updates[i].state = "pending"
  /\ LET r == update_then(_data, [status |-> status, data |-> body])
     IN /\ _data' = r.data
        /\ updates' = [updates EXCEPT ![i] =
              IF r.threw THEN @
              ELSE [@ EXCEPT !.state = "resolved", !.status = status,
                             !.value = r.value]]
        /\ sent' = IF r.threw THEN sent + 1 ELSE sent
  /\ lastOk' = IF status = 200 THEN body ELSE lastOk
  /\ since' = IF status = 200 THEN <<>> ELSE since
  /\ ev' = [NoEv EXCEPT !.op = "updateResponse", !.id = i, !.status = status,
                        !.body = body, !.before = _data]
  /\ UNCHANGED <<_ajaxSettings, heap, callerRead, loadReq, loadP, sectionP>>
UpdateRespond_rollback(i, status, body) ==
  /\ i \in DOMAIN updates
  /\ updates[i].state = "pending"
  /\ LET r == update_then(_data, [status |-> status, data |-> body])
     IN /\ _data' = IF r.threw THEN updates[i].before ELSE r.data
        /\ updates' = [updates EXCEPT ![i] =
              IF r.threw
              THEN [@ EXCEPT !.state = "rejected", !.status = status,
                             !.error = r.error]
              ELSE [@ EXCEPT !.state = "resolved", !.status = status,
                             !.value = r.value]]
  /\ lastOk' = IF status = 200 THEN body ELSE lastOk
  /\ since' = IF status = 200 THEN <<>> ELSE since
  /\ ev' = [NoEv EXCEPT !.op = "updateResponse", !.id = i, !.status = status,
                        !.body = body, !.before = _data]
  /\ UNCHANGED <<_ajaxSettings, heap, callerRead, loadReq, loadP, sectionP,
                 sent>>
UpdateRespond_store_partial(i, status, body) ==
  /\ i \in DOMAIN updates
  /\ updates[i].state = "pending"
  /\ LET r == update_then(_data, [status |-> status, data |-> body])
     IN /\ _data' = IF r.threw THEN r.data ELSE updates[i].partial
        /\ updates' = [updates EXCEPT ![i] =
              IF r.threw
              THEN [@ EXCEPT !.state = "rejected", !.status = status,
                             !.error = r.error]
              ELSE [@ EXCEPT !.state = "resolved", !.status = status,
                             !.value = r.value]]
  /\ lastOk' = IF status = 200 THEN body ELSE lastOk
  /\ since' = IF status = 200 THEN <<>> ELSE since
  /\ ev' = [NoEv EXCEPT !.op = "updateResponse", !.id = i, !.status = status,
                        !.body = body, !.before = _data]
  /\ UNCHANGED <<_ajaxSettings, heap, callerRead, loadReq, loadP, sectionP,
                 sent>>
UpdateRespond(i, status, body) ==
  /\ i \in DOMAIN updates
  /\ updates[i].state = "pending"
  /\ LET r == update_then(_data, [status |-> status, data |-> body])
     IN /\ _data' = r.data
        /\ updates' = [updates EXCEPT ![i] =
              IF r.threw
              THEN [@ EXCEPT !.state = "rejected", !.status = status,
                             !.error = r.error]
              ELSE [@ EXCEPT !.state = "resolved", !.status = status,
                             !.value = r.value]]
  /\ lastOk' = IF status = 200 THEN body ELSE lastOk
  /\ since' = IF status = 200 THEN <<>> ELSE since
  /\ ev' = [NoEv EXCEPT !.op = "updateResponse", !.id = i, !.status = status,
                        !.body = body, !.before = _data]
  /\ UNCHANGED <<_ajaxSettings, heap, callerRead, loadReq, loadP, sectionP,
                 sent>>

\* the transport fails the PATCH of the i-th update
UpdateFail(i) ==
  /\ i \in DOMAIN updates
  /\ updates[i].state = "pending"
  /\ updates' = [updates EXCEPT ![i] =
        [@ EXCEPT !.state = "rejected", !.error = TransportError]]
  /\ ev' = [NoEv EXCEPT !.op = "updateError", !.id = i, !.before = _data]
  /\ UNCHANGED <<_data, _ajaxSettings, heap, callerRead, loadReq, loadP,
                 sectionP, lastOk, since, sent>>

-----------------------------------------------------------------------------
(* ConfigWithDefaults *)

\* the constructor: the fields of the new object (its section is the one
\* section of the model)
ConfigWithDefaults(options) ==
  [_defaults |-> IF Truthy(options.defaults) THEN options.defaults ELSE Obj(<<>>),
   _className |-> IF Truthy(options.className) THEN options.className.p ELSE ""]

\* _classData()
_classData(w, data) ==
  IF w._className # ""
  THEN LET c == Index(data, w._className)
       IN IF c = TypeError THEN TypeError
          ELSE IF Truthy(c) THEN c ELSE Obj(<<>>)
  ELSE data

\* get(key): the value, or TypeError when the evaluation throws
get_present_wins(w, data, key) ==
  LET v == Index(_classData(w, data), key)
  IN IF v = TypeError THEN TypeError
     ELSE IF v # Undefined THEN v ELSE Index(w._defaults, key)
get(w, data, key) ==
  LET v == Index(_classData(w, data), key)
  IN IF v = TypeError THEN TypeError
     ELSE IF Truthy(v) THEN v ELSE Index(w._defaults, key)

\* set(key, value): the argument it passes to section.update
set_no_class(w, key, value) == Obj(key :> value)
set_payload(w, key, value) ==
  LET d == Obj(key :> value)
  IN IF w._className # "" THEN Obj(w._className :> d) ELSE d

\* a caller that holds the section wraps it and calls set(key, value)
Set(options, key, value) ==
  /\ sectionP.state = "resolved"
  /\ Len(updates) < MaxUpdates
  /\ LET w == ConfigWithDefaults(options)
     IN /\ update(set_payload(w, key, value))
        /\ ev' = [NoEv EXCEPT !.op = "set", !.id = Len(updates) + 1,
                              !.before = _data, !.cls = w._className,
                              !.key = key, !.val = value]

\* a caller evaluates get(key) on a wrapper of the section
Get_caching(options, key) ==
  /\ LET w == ConfigWithDefaults(options)
         v == get(w, _data, key)
     IN /\ ev' = [NoEv EXCEPT !.op = "get", !.before = _data,
                              !.cls = w._className, !.key = key,
                              !.dflt = w._defaults, !.val = v]
        /\ _data' = IF _data.k = "object" /\ v.k \notin {"undefined", "TypeError"}
                    THEN utils_extend(_data, Obj(key :> v))
                    ELSE _data
  /\ UNCHANGED <<_ajaxSettings, heap, callerRead, loadReq, loadP,
                 sectionP, updates, lastOk, since, sent>>
Get(options, key) ==
  /\ LET w == ConfigWithDefaults(options)
     IN ev' = [NoEv EXCEPT !.op = "get", !.before = _data, !.cls = w._className,
                           !.key = key, !.dflt = w._defaults,
                           !.val = get(w, _data, key)]
  /\ UNCHANGED <<_data, _ajaxSettings, heap, callerRead, loadReq, loadP,
                 sectionP, updates, lastOk, since, sent>>

-----------------------------------------------------------------------------
(* The callers' use of section.ajaxSettings *)

\* the settings objects the caller holds a reference to
Held == {"options"} \cup ({callerRead} \ {"none"})

\* the values a caller writes into a settings object it holds
Timeouts == {"undefined", "10", "20"}

\* x = section.ajaxSettings
CallerRead ==
  /\ sectionP.state = "resolved"
  /\ LET g == get_ajaxSettings(heap, _ajaxSettings, "read")
     IN /\ heap' = g.heap
        /\ callerRead' = g.ref
  /\ ev' = [NoEv EXCEPT !.op = "read", !.before = _data]
  /\ UNCHANGED <<_data, _ajaxSettings, loadReq, loadP, sectionP, updates,
                 lastOk, since, sent>>

\* section.ajaxSettings = x, for an object x the caller holds
CallerAssign(loc) ==
  /\ sectionP.state = "resolved"
  /\ loc \in Held
  /\ LET s == set_ajaxSettings(heap, loc, "stored")
     IN /\ heap' = s.heap
        /\ _ajaxSettings' = s.ref
  /\ ev' = [NoEv EXCEPT !.op = "assign", !.before = _data, !.loc = loc]
  /\ UNCHANGED <<_data, callerRead, loadReq, loadP, sectionP, updates,
                 lastOk, since, sent>>

\* x.timeout = t and x.method = 'DELETE', for an object x the caller holds
CallerMutate(loc, t) ==
  /\ loc \in Held
  /\ heap[loc].timeout # t
  /\ heap' = [heap EXCEPT ![loc].timeout = t, ![loc].method = "DELETE"]
  /\ ev' = [NoEv EXCEPT !.op = "mutate", !.before = _data, !.loc = loc]
  /\ UNCHANGED <<_data, _ajaxSettings, callerRead, loadReq, loadP, sectionP,
                 updates, lastOk, since, sent>>

-----------------------------------------------------------------------------
(* The section's protocol: load, then updates answered in any order. *)

Next ==
  \/ Load
  \/ \E status \in LoadStatuses, body \in Bodies : LoadRespond(status, body)
  \/ LoadFail
  \/ GetConfigSectionSettle
  \/ \E newdata \in Partials : Update(newdata)
  \/ \E options \in SetOptions, key \in SetKeys, value \in SetValues :
       Set(options, key, value)
  \/ \E i \in 1..MaxUpdates, status \in UpdateStatuses, body \in Bodies :
       UpdateRespond(i, status, body)
  \/ \E i \in 1..MaxUpdates : UpdateFail(i)

Spec == Init /\ [][Next]_vars

-----------------------------------------------------------------------------
(* get() as a function of the section's data, the defaults and the class    *)
(* name: a section whose load was answered with any of GetData.            *)

GetData ==
  { Obj(<<>>),
    Obj("foo" :> Str("bar")),
    Obj(("foo" :> Num("0")) @@ ("spam" :> Str(""))),
    Obj(("foo" :> Bool("false")) @@ ("spam" :> Null)),
    Obj("testclass" :> Obj("foo" :> Str("bar"))),
    Obj("testclass" :> Obj(("foo" :> Num("0")) @@ ("spam" :> Str("")))),
    Obj("testclass" :> Obj(("foo" :> Bool("false")) @@ ("spam" :> Null))),
    Obj(("testclass" :> Null) @@ ("foo" :> Str("bar"))),
    Obj(("testclass" :> Num("0")) @@ ("spam" :> Str("baz"))),
    Obj(("testclass" :> Str("bar")) @@ ("spam" :> Str("baz"))) }

GetOptions ==
  { [className |-> c, defaults |-> d] :
      c \in {Undefined, Str(""), Str("testclass")},
      d \in {Undefined, Obj("spam" :> Str("eggs")),
             Obj(("foo" :> Str("bar")) @@ ("spam" :> Str("eggs")))} }

GetKeys == {"foo", "spam"}

InitGet ==
  /\ _data \in GetData
  /\ heap = [l \in Locs |-> NoSettings]
  /\ _ajaxSettings = "stored"
  /\ callerRead = "none"
  /\ loadReq = [state |-> "answered",
                settings |-> [NoSettings EXCEPT !.method = "GET",
                                                !.dataType = "json",
                                                !.cache = "false"],
                status |-> 200, body |-> _data]
  /\ loadP = [state |-> "resolved", error |-> ""]
  /\ sectionP = [state |-> "resolved", error |-> ""]
  /\ updates = <<>>
  /\ sent = 1
  /\ lastOk = _data
  /\ since = <<>>
  /\ ev = [NoEv EXCEPT !.op = "settle", !.before = _data]

NextGet == \E options \in GetOptions, key \in GetKeys : Get(options, key)

SpecGet == InitGet /\ [][NextGet]_vars

-----------------------------------------------------------------------------
(* The settings under the callers' reads, assignments and mutations, with   *)
(* one body and one argument for the requests in between.                   *)

AjaxBody == Obj("foo" :> Str("baz"))

NextAjax ==
  \/ Load
  \/ LoadRespond(200, AjaxBody)
  \/ GetConfigSectionSettle
  \/ Update(AjaxBody)
  \/ \E i \in 1..MaxUpdates : UpdateRespond(i, 200, AjaxBody)
  \/ CallerRead
  \/ \E loc \in Locs : CallerAssign(loc)
  \/ \E loc \in Locs, t \in Timeouts : CallerMutate(loc, t)

SpecAjax == Init /\ [][NextAjax]_vars

-----------------------------------------------------------------------------
(* The section's protocol under a transport that answers every request it   *)
(* is handed, and an event loop that runs every callback that is due; the  *)
(* answers carry either status and one of two bodies.                      *)

LiveBodies == {Obj(<<>>), AjaxBody}

\* the transport settles the GET
AnswerLoad ==
  \/ \E status \in UpdateStatuses, body \in LiveBodies : LoadRespond(status, body)
  \/ LoadFail

\* the transport settles the PATCH of the i-th update
AnswerUpdate(i) ==
  \/ \E status \in UpdateStatuses, body \in LiveBodies :
       UpdateRespond(i, status, body)
  \/ UpdateFail(i)

NextLive ==
  \/ Load
  \/ AnswerLoad
  \/ GetConfigSectionSettle
  \/ Update(AjaxBody)
  \/ \E i \in 1..MaxUpdates : AnswerUpdate(i)

SpecLive ==
  /\ Init /\ [][NextLive]_vars
  /\ WF_vars(AnswerLoad)
  /\ WF_vars(GetConfigSectionSettle)
  /\ \A i \in 1..MaxUpdates : WF_vars(AnswerUpdate(i))

-----------------------------------------------------------------------------
(* Wrappers on the one section: set() and get() through ConfigWithDefaults *)
(* objects of several class names and defaults, around the answers.  A     *)
(* ConfigWithDefaults takes any IConfigSection, so get() is called on the  *)
(* section in every state, from its construction on.                       *)

WrapBodies ==
  { Obj(<<>>),
    Obj("testclass" :> Obj(("foo" :> Str("baz")) @@ ("spam" :> Str("eggs")))) }

WrapValues == {Str("bar"), Str("")}

WrapOptions ==
  { [className |-> c, defaults |-> d] :
      c \in {Undefined, Str("testclass")},
      d \in {Obj("spam" :> Str("eggs"))} }

NextWrap ==
  \/ Load
  \/ \E body \in WrapBodies : LoadRespond(200, body)
  \/ GetConfigSectionSettle
  \/ \E options \in SetOptions, key \in SetKeys, value \in WrapValues :
       Set(options, key, value)
  \/ \E i \in 1..MaxUpdates, body \in WrapBodies : UpdateRespond(i, 200, body)
  \/ \E options \in WrapOptions, key \in GetKeys : Get(options, key)

SpecWrap == Init /\ [][NextWrap]_vars

-----------------------------------------------------------------------------
(* Ordered delivery: one configuration server answers the section.  It     *)
(* answers the GET with its configuration, applies each PATCH to it by a   *)
(* shallow merge of the body received, in the order the requests were      *)
(* issued, and answers 200 with the configuration that results; the        *)
(* answers reach the section in that order.                                *)

\* the objects a caller of update() or set() passes
Sendable ==
  Partials \cup
  { set_payload(ConfigWithDefaults(options), key, value) :
      options \in SetOptions, key \in SetKeys, value \in SetValues }

\* the server reads the body of a request: the object whose JSON text it is
JSONparse(text) == CHOOSE v \in Sendable : JSONstringify(v) = text

\* the server's shallow merge of a PATCH body onto its configuration
ServerMerge(config, patch) ==
  Obj([key \in DOMAIN config.o \cup DOMAIN patch.o |->
         IF key \in DOMAIN patch.o THEN patch.o[key] ELSE config.o[key]])

\* the server's configuration once it has applied the first n PATCH requests
RECURSIVE ServerConfig(_)
ServerConfig(n) ==
  IF n = 0 THEN loadReq.body
  ELSE ServerMerge(ServerConfig(n - 1), JSONparse(updates[n].settings.data))

\* the answer to the i-th update arrives, after the answers to those before
OrderedRespond(i) ==
  /\ i \in DOMAIN updates
  /\ \A j \in 1..(i - 1) : updates[j].state # "pending"
  /\ UpdateRespond(i, 200, ServerConfig(i))

NextOrdered ==
  \/ Load
  \/ \E body \in Bodies : LoadRespond(200, body)
  \/ GetConfigSectionSettle
  \/ \E newdata \in Partials : Update(newdata)
  \/ \E options \in SetOptions, key \in SetKeys, value \in SetValues :
       Set(options, key, value)
  \/ \E i \in 1..MaxUpdates : OrderedRespond(i)

SpecOrdered == Init /\ [][NextOrdered]_vars

-----------------------------------------------------------------------------
(* The claims.  They are stated on the observable state and the history,   *)
(* with their own reading of "member" and "shallow merge".                 *)

Members(v) == IF v.k = "object" THEN DOMAIN v.o ELSE {}
Member(v, key) == IF key \in Members(v) THEN v.o[key] ELSE Undefined

Loaded == sectionP.state = "resolved"

\* the message of the error for status N
Message(N) ==
  CASE N = 201 -> "Invalid Status: 201"
    [] N = 204 -> "Invalid Status: 204"
    [] N = 404 -> "Invalid Status: 404"
    [] OTHER -> "?"

\* the update() call the last event is about
Called == updates[ev.id]

\* C1 as stated: in every state of a loaded section, data is the body of the
\* most recent status-200 response, and after a failed update data is what it
\* was before that update was called.
C1_DataIsLastOkBody ==
  /\ Loaded => _data = lastOk
  /\ ev.op \in {"updateResponse", "updateError"} /\ Called.state = "rejected"
       => _data = Called.before

\* C1, amended: in every state of a loaded section in which no update() was
\* called since the most recent status-200 response was processed, data is
\* the body of that response; and a failing answer to an update leaves data
\* as it was just before that answer was processed.
C1_DataIsLastOkBodyUntilNextUpdate ==
  /\ Loaded /\ since = <<>> => _data = lastOk
  /\ ev.op \in {"updateResponse", "updateError"} /\ Called.state = "rejected"
       => _data = ev.before

C1_Witness ==
  /\ Loaded
  /\ since = <<>>
  /\ ev.op = "updateResponse"
  /\ Called.state = "rejected"
  /\ _data = lastOk
  /\ lastOk # loadReq.body
  /\ _data # Called.before
  /\ _data # ev.body

\* C2: getConfigSection's promise is resolved only once the GET was answered
\* with status 200, and when it resolves data is the body of that answer.
C2_SectionOnlyAfterLoad200 ==
  /\ Loaded => /\ loadReq.state = "answered"
               /\ loadReq.status = 200
               /\ loadP.state = "resolved"
  /\ Loaded /\ ev.op = "settle" => _data = loadReq.body

C2_Witness ==
  /\ Loaded
  /\ ev.op = "settle"
  /\ _data = Obj(("foo" :> Str("baz")) @@ ("spam" :> Str("eggs")))

\* C3: once the GET is answered with a status N other than 200, load() is
\* rejected with the message "Invalid Status: N", and getConfigSection's
\* promise is never resolved: it settles rejected with that message.
C3_LoadRejectsOtherStatus ==
  loadReq.state = "answered" /\ loadReq.status # 200
    => /\ loadP = [state |-> "rejected", error |-> Message(loadReq.status)]
       /\ sectionP.state \in {"pending", "rejected"}
       /\ sectionP.state = "rejected" => sectionP.error = Message(loadReq.status)

C3_Witness ==
  /\ loadReq.state = "answered"
  /\ loadReq.status = 404
  /\ sectionP = [state |-> "rejected", error |-> "Invalid Status: 404"]

\* C4: right after update(partial) returns, every member of partial has in
\* data the value partial gives it, and every member of the previous data that
\* partial does not name keeps its value.
C4_UpdateMergesAtOnce ==
  ev.op \in {"update", "set"}
    => /\ \A key \in Members(Called.partial) :
            Member(_data, key) = Called.partial.o[key]
       /\ \A key \in Members(ev.before) \ Members(Called.partial) :
            Member(_data, key) = ev.before.o[key]

C4_Witness ==
  /\ ev.op \in {"update", "set"}
  /\ Called.state = "pending"
  /\ \E key \in Members(ev.before) \cap Members(Called.partial) :
       ev.before.o[key] # Called.partial.o[key]
  /\ Members(ev.before) \ Members(Called.partial) # {}

\* C5: when an update is answered with status 200, data is the body of the
\* answer and nothing else, the update's promise is resolved with that body,
\* and a member merged by the call that the body lacks is gone from data.
C5_Update200ReplacesData ==
  ev.op = "updateResponse" /\ ev.status = 200
    => /\ _data = ev.body
       /\ Called.state = "resolved"
       /\ Called.value = ev.body
       /\ \A key \in Members(Called.partial) \ Members(ev.body) :
            key \notin Members(_data)

C5_Witness ==
  /\ ev.op = "updateResponse"
  /\ ev.status = 200
  /\ \E key \in Members(Called.partial) \ Members(ev.body) :
       key \in Members(ev.before)

\* C6: when an update is answered with a status N other than 200, its promise
\* is rejected with "Invalid Status: N" and data is what it was just before
\* the answer was processed: the body is not stored, the merge is not undone.
C6_UpdateFailureKeepsMerge ==
  ev.op = "updateResponse" /\ ev.status # 200
    => /\ Called.state = "rejected"
       /\ Called.error = Message(ev.status)
       /\ _data = ev.before

C6_Witness ==
  /\ ev.op = "updateResponse"
  /\ ev.status = 201
  /\ _data # ev.body
  /\ _data # Called.before
  /\ \A key \in Members(Called.partial) :
       Member(_data, key) = Called.partial.o[key]

\* C7: when every update() call made has been resolved (each answered with
\* status 200), data is the body of the answer that was processed last,
\* whatever the order of the calls.
C7_LastResponseWins ==
  updates # <<>> /\ (\A i \in DOMAIN updates : updates[i].state = "resolved")
    => _data = lastOk

C7_Witness ==
  /\ Len(updates) = 2
  /\ \A i \in DOMAIN updates : updates[i].state = "resolved"
  /\ ev.op = "updateResponse"
  /\ ev.id = 1
  /\ updates[1].value # updates[2].value
  /\ _data = updates[1].value

\* the values JavaScript takes for false
Falsy == {Num("0"), Str(""), Bool("false"), Null, Undefined}

\* the class-scoped data of a section holding an object d, for class name cls
Scoped(d, cls) ==
  IF cls = "" THEN d
  ELSE IF Member(d, cls) \in Falsy THEN Obj(<<>>) ELSE Member(d, cls)

\* C8: get(key) is the value stored under key in the class-scoped data when
\* that value is truthy, and defaults[key] otherwise, also when the stored
\* value is 0, '', false or null.
C8_GetFallsBackOnFalsy ==
  ev.op = "get" /\ _data.k = "object"
    => LET stored == Member(Scoped(_data, ev.cls), ev.key)
       IN ev.val = IF stored \in Falsy THEN Member(ev.dflt, ev.key) ELSE stored

C8_Witness ==
  /\ ev.op = "get"
  /\ ev.cls = "testclass"
  /\ Member(Scoped(_data, ev.cls), ev.key) = Str("")
  /\ ev.val = Str("eggs")

\* C9: set(key, value) makes one update() call, with {className: {key: value}}
\* when a class name is set and {key: value} otherwise, returns the promise of
\* that call, and right after it the class-scoped data holds value under key.
C9_SetDelegatesToUpdate ==
  ev.op = "set"
    => /\ Len(updates) = ev.id
       /\ Called.partial = IF ev.cls # "" THEN Obj(ev.cls :> Obj(ev.key :> ev.val))
                           ELSE Obj(ev.key :> ev.val)
       /\ Called.state = "pending"
       /\ Called.settings.method = "PATCH"
       /\ Member(Scoped(_data, ev.cls), ev.key) = ev.val

C9_Witness ==
  /\ ev.op = "set"
  /\ ev.cls = "testclass"
  /\ ev.key = "foo"
  /\ Member(Member(_data, "testclass"), "foo") = Str("bar")
  /\ Member(Member(ev.before, "testclass"), "foo") = Str("baz")

\* C10: the stored settings are reached only through copies: the getter hands
\* out a copy and the setter stores a copy, so no object the caller holds is
\* the stored one, and no step but an assignment changes the stored settings,
\* neither a caller's mutation nor a load() or update() call.
C10_SettingsOnlyThroughCopies ==
  [][ /\ _ajaxSettings' \notin {"options", callerRead'}
      /\ ev'.op # "assign" => heap'[_ajaxSettings'] = heap[_ajaxSettings]
      /\ ev'.op = "assign" => heap'[_ajaxSettings'] = heap[ev'.loc]
      /\ ev'.op = "read" => heap'[callerRead'] = heap[_ajaxSettings] ]_vars

C10_Witness ==
  /\ ev.op = "mutate"
  /\ callerRead = "read"
  /\ heap[_ajaxSettings].timeout = "20"
  /\ heap["read"].timeout = "undefined"
  /\ heap["options"].timeout = "10"
  /\ \E i \in DOMAIN updates :
       /\ updates[i].settings.timeout = "20"
       /\ updates[i].settings.method = "PATCH"

\* the JSON text of each argument update() is given in the model
TextOf(partial) ==
  CASE partial = Obj("foo" :> Str("baz")) -> "{\"foo\":\"baz\"}"
    [] partial = Obj(("foo" :> Str("baz")) @@ ("spam" :> Str("eggs")))
         -> "{\"foo\":\"baz\",\"spam\":\"eggs\"}"
    [] partial = Obj("foo" :> Str("bar")) -> "{\"foo\":\"bar\"}"
    [] partial = Obj("spam" :> Str("bar")) -> "{\"spam\":\"bar\"}"
    [] partial = Obj("testclass" :> Obj("foo" :> Str("bar")))
         -> "{\"testclass\":{\"foo\":\"bar\"}}"
    [] partial = Obj("testclass" :> Obj("spam" :> Str("bar")))
         -> "{\"testclass\":{\"spam\":\"bar\"}}"
    [] OTHER -> "?"

\* C11: the body of the PATCH of every update(partial) is the JSON text of
\* partial as the caller passed it; right after the call, when data holds
\* more than partial, the body is not the text of data.
C11_PatchBodyIsPartial ==
  /\ \A i \in DOMAIN updates :
       /\ updates[i].settings.method = "PATCH"
       /\ updates[i].settings.data = TextOf(updates[i].partial)
  /\ ev.op \in {"update", "set"} /\ _data # Called.partial
       => Called.settings.data # JSONstringify(_data)

C11_Witness ==
  /\ ev.op = "update"
  /\ ev.id = 2
  /\ updates[1].state = "pending"
  /\ updates[1].partial = Obj("testclass" :> Obj("spam" :> Str("bar")))
  /\ Members(_data) = {"foo", "spam", "testclass"}
  /\ Called.settings.data = "{\"foo\":\"baz\"}"

\* the calls made so far that hand a request to the transport
Calls == (IF loadReq.state = "none" THEN 0 ELSE 1) + Len(updates)

\* a step that rejects the promise of the update the event is about
UpdateRejected ==
  /\ ev'.op \in {"updateResponse", "updateError"}
  /\ updates[ev'.id].state = "pending"
  /\ updates'[ev'.id].state = "rejected"

\* a step that rejects the promise of load()
LoadRejected ==
  /\ ev'.op \in {"loadResponse", "loadError"}
  /\ loadP.state = "pending"
  /\ loadP'.state = "rejected"

\* C12: every load() and update() call hands one request to the transport and
\* none is sent again; a promise is resolved only on status 200 and rejected
\* only otherwise, and once settled it stays as it is; a step that rejects one
\* promise sends nothing and leaves every other promise alone; and, the
\* transport answering every request, every pending promise is settled.
C12_OneRequestSettledOnce ==
  /\ [](sent = Calls)
  /\ [](\A i \in DOMAIN updates :
          /\ updates[i].state = "resolved" => updates[i].status = 200
          /\ updates[i].state = "rejected" => updates[i].status # 200)
  /\ [](/\ loadP.state = "resolved" => loadReq.status = 200
        /\ loadP.state = "rejected" => loadReq.status # 200)
  /\ [][ /\ \A i \in DOMAIN updates :
              updates[i].state # "pending" => updates'[i] = updates[i]
         /\ loadP.state \in {"resolved", "rejected"} => loadP' = loadP
         /\ sectionP.state \in {"resolved", "rejected"} => sectionP' = sectionP
         /\ UpdateRejected
              => /\ sent' = sent
                 /\ Len(updates') = Len(updates)
                 /\ \A j \in DOMAIN updates \ {ev'.id} : updates'[j] = updates[j]
                 /\ loadP' = loadP /\ sectionP' = sectionP
         /\ LoadRejected => sent' = sent /\ updates' = updates ]_vars
  /\ (loadP.state = "pending") ~> (loadP.state \in {"resolved", "rejected"})
  /\ (sectionP.state = "pending") ~> (sectionP.state \in {"resolved", "rejected"})
  /\ \A i \in 1..MaxUpdates :
       (Len(updates) >= i /\ updates[i].state = "pending")
         ~> (Len(updates) >= i /\ updates[i].state \in {"resolved", "rejected"})

C12_Witness ==
  /\ Len(updates) = 2
  /\ ev.op = "updateResponse"
  /\ ev.id = 1
  /\ updates[1].state = "rejected"
  /\ updates[2].state = "pending"
  /\ sent = 3

-----------------------------------------------------------------------------
-----------------------------------------------------------------------------
\* the result of get(key) as a function of the section's data, the wrapper's
\* class name and defaults, and the key
Read(d, cls, dflt, key) ==
  IF d.k # "object" THEN TypeError
  ELSE LET stored == Member(Scoped(d, cls), key)
       IN IF stored \in Falsy THEN Member(dflt, key) ELSE stored

\* the wrappers of the section with class name cls, whatever their defaults
WrappersOf(cls) ==
  { w \in { ConfigWithDefaults(options) : options \in WrapOptions } :
      w._className = cls }

\* a get() step changes neither data nor the requests made, and its result
\* is a function of data, class name, defaults and key alone
GetReadsOnly ==
  /\ [](ev.op = "get" => ev.val = Read(_data, ev.cls, ev.dflt, ev.key))
  /\ [][ev'.op = "get" => /\ _data' = _data
                          /\ sent' = sent
                          /\ updates' = updates
                          /\ loadReq' = loadReq]_vars

\* C14: wrappers share one section: get changes neither data nor the
\* requests made, its result depends only on data, defaults and class name,
\* and right after a set through one wrapper, get(key) through every wrapper
\* with the same class name returns the value set.
C14_SetSeenByEveryWrapper ==
  /\ GetReadsOnly
  /\ [](ev.op = "set" => \A w \in WrappersOf(ev.cls) :
                            get(w, _data, ev.key) = ev.val)

\* C14, restated: as above, and right after a set through one wrapper,
\* get(key) through every wrapper with the same class name returns the value
\* set when that value is truthy, and that wrapper's defaults[key] when the
\* value set is falsy.
C14_TruthySetSeenByEveryWrapper ==
  /\ GetReadsOnly
  /\ [](ev.op = "set" => \A w \in WrappersOf(ev.cls) :
            get(w, _data, ev.key) =
              IF ev.val \in Falsy THEN Member(w._defaults, ev.key) ELSE ev.val)

C14_Witness ==
  /\ ev.op = "set"
  /\ ev.cls = "testclass"
  /\ ev.key = "spam"
  /\ ev.val = Str("")
  /\ Member(Member(_data, "testclass"), "spam") = Str("")
  /\ \E w \in WrappersOf("testclass") : get(w, _data, "spam") = Str("eggs")

-----------------------------------------------------------------------------
\* the keys other than key that the class sub-object of data d holds
OtherKeys(d, cls, key) == Members(Member(d, cls)) \ {key}

\* C15: with a class name set, right after set(key, value) every other key
\* k2 stored in the class sub-object reads through get(k2) as it did right
\* before the call.  Whether this holds is decided by utils.extend alone: it
\* fails when the merge replaces the member data[className] whole
\* (update_data), and holds when the merge descends into it
\* (update_data_deep).
C15_SetKeepsOtherKeys ==
  ev.op = "set" /\ ev.cls # ""
    => \A k2 \in OtherKeys(ev.before, ev.cls, ev.key) :
         \A w \in WrappersOf(ev.cls) :
           get(w, _data, k2) = get(w, ev.before, k2)

-----------------------------------------------------------------------------
\* the i-th update() call is in flight: its promise has not settled
InFlight(i) == i \in DOMAIN updates /\ updates[i].state = "pending"

\* key is in the argument of no update() call other than the i-th
OnlyIn(i, key) ==
  \A j \in DOMAIN updates \ {i} : key \notin Members(updates[j].partial)

\* no status-200 response has been processed since the i-th update() call
NoOkSince(i) == i > Len(updates) - Len(since)

\* C16: while an update is in flight, every key of its partial that no other
\* update's partial contains holds in data the value given in the partial,
\* whatever other update calls and responses have come between.
C16_OptimisticValueStays ==
  \A i \in DOMAIN updates : InFlight(i) =>
    \A key \in Members(updates[i].partial) : OnlyIn(i, key) =>
      Member(_data, key) = Member(updates[i].partial, key)

\* C16, restated: while an update is in flight and no response with status
\* 200 has been processed since its call, every key of its partial that no
\* other update's partial contains holds in data the value given in the
\* partial, whatever other update calls, other-status responses and
\* transport failures have come between.
C16_OptimisticValueStaysUntilNextOk ==
  \A i \in DOMAIN updates : InFlight(i) /\ NoOkSince(i) =>
    \A key \in Members(updates[i].partial) : OnlyIn(i, key) =>
      Member(_data, key) = Member(updates[i].partial, key)

C16_Witness ==
  /\ Len(updates) = 2
  /\ InFlight(2)
  /\ updates[2].partial = Obj("foo" :> Str("baz"))
  /\ updates[1].partial = Obj("spam" :> Str("bar"))
  /\ updates[1].state = "rejected"
  /\ ev.op = "updateResponse" /\ ev.id = 1 /\ ev.status = 201
  /\ NoOkSince(2)
  /\ Member(_data, "foo") = Str("baz")

-----------------------------------------------------------------------------
\* C17: under ordered delivery (the server merges each PATCH shallowly in
\* issue order and answers 200 with its resulting configuration, the answers
\* arriving in that order), whenever the section is loaded and no update is
\* in flight, data equals the server's configuration.
C17_ConvergesUnderOrderedDelivery ==
  loadP.state = "resolved" /\ (\A i \in DOMAIN updates : ~InFlight(i))
    => _data = ServerConfig(Len(updates))

C17_Witness ==
  /\ Len(updates) = 2
  /\ updates[1].state = "resolved" /\ updates[2].state = "resolved"
  /\ ev.op = "updateResponse" /\ ev.id = 2
  /\ loadReq.body =
       Obj("testclass" :> Obj(("foo" :> Str("baz")) @@ ("spam" :> Str("eggs"))))
  /\ updates[1].partial = Obj("foo" :> Str("baz"))
  /\ updates[2].partial = Obj("spam" :> Str("bar"))
  /\ Members(_data) = {"foo", "spam", "testclass"}
  /\ updates[1].value # _data

====
